---- MODULE Spec2Model ----
(***************************************************************************)
(* The Piwik PRO annotations adapter: the Resource Client (AnalyticsAPI)   *)
(* and the Tool Adapter (analytics_annotations_* tools) on top of it.      *)
(*                                                                         *)
(* The adapter keeps no state between calls.  The state of the model is    *)
(* the record of the last invocation: which operation was called with      *)
(* which arguments, the HTTP requests it sent (in order, each with what    *)
(* the HTTP client did with it) and how the invocation ended.  The HTTP    *)
(* client is an external collaborator: for every request it either raises  *)
(* or returns None, an empty object or a JSON body, chosen by \E.          *)
(* Building the client (create_piwik_client, first line of every tool)     *)
(* sends no request and is taken to succeed.                               *)
(*                                                                         *)
(* Python values: None is the record None; an Optional non-object value v  *)
(* is Some(v); a dict is a TLA+ function on its keys; a pydantic model     *)
(* instance is a record with a cls field.  Strings that the code           *)
(* transforms or orders (source, type, date) are sequences of character    *)
(* codes; the others are TLA+ strings.                                     *)
(***************************************************************************)
EXTENDS Integers, Sequences, FiniteSets, TLC

VARIABLES call, requests, result

vars == <<call, requests, result>>

-----------------------------------------------------------------------------
(* Bounds of the model *)

\* longest date_from / date_to list a caller passes
MaxDates == 2
\* most items a list endpoint returns in one page
MaxItems == 2

-----------------------------------------------------------------------------
(* Python values *)

None == [none |-> TRUE]
Some(v) == [some |-> v]
EmptyDict == [k \in {} |-> k]

IsModel(v) == "cls" \in DOMAIN v
IsDict(v) == v # None /\ ~IsModel(v)

\* bool(v): None and {} are falsy; a pydantic model defines neither __bool__
\* nor __len__, so every instance is truthy
Truthy(v) == IF v = None THEN FALSE
             ELSE IF IsModel(v) THEN TRUE
             ELSE DOMAIN v # {}

\* `response or {}`
OrEmptyDict(v) == IF Truthy(v) THEN v ELSE EmptyDict

\* hasattr(v, "get"): dicts have .get, None and pydantic models do not
HasGet(v) == IsDict(v)

\* d.get(k, default)
DictGet(d, k, default) == IF k \in DOMAIN d THEN d[k] ELSE default

\* str.lower() on a sequence of character codes
Lower(s) == [i \in 1..Len(s) |-> IF s[i] \in 65..90 THEN s[i] + 32 ELSE s[i]]

\* a < b for Python strings: lexicographic on the character codes
RECURSIVE StrLess(_, _)
StrLess(a, b) ==
    IF b = <<>> THEN FALSE
    ELSE IF a = <<>> THEN TRUE
    ELSE IF Head(a) # Head(b) THEN Head(a) < Head(b)
    ELSE StrLess(Tail(a), Tail(b))

-----------------------------------------------------------------------------
(* String literals of the code, as character codes *)

\* "all", "user", "system"
S_all == <<97, 108, 108>>
S_user == <<117, 115, 101, 114>>
S_system == <<115, 121, 115, 116, 101, 109>>
\* "UserAnnotation", "SystemAnnotation", "systemannotation"
T_UserAnnotation ==
    <<85, 115, 101, 114, 65, 110, 110, 111, 116, 97, 116, 105, 111, 110>>
T_SystemAnnotation ==
    <<83, 121, 115, 116, 101, 109, 65, 110, 110, 111, 116, 97, 116, 105, 111, 110>>
T_systemannotation ==
    <<115, 121, 115, 116, 101, 109, 97, 110, 110, 111, 116, 97, 116, 105, 111, 110>>

USER_ANNOTATIONS_BASE == "/api/analytics/v1/manage/annotation/user"
SYSTEM_ANNOTATIONS_BASE == "/api/analytics/v1/manage/annotation/system"

-----------------------------------------------------------------------------
(* Inputs *)

\* "2024-01-01", "2024-01-31"
D_2024_01_01 == <<50, 48, 50, 52, 45, 48, 49, 45, 48, 49>>
D_2024_01_31 == <<50, 48, 50, 52, 45, 48, 49, 45, 51, 49>>
Dates == {D_2024_01_01, D_2024_01_31}

Apps == {"app-1", "app-2"}
Ids == {"ann-1", "ann-2"}
Contents == {"release"}
Visibilities == {"private", "public"}
Limits == {10}
Offsets == {0}

\* "User", "" and "other" besides the three documented values
Sources == {S_all, S_user, S_system, <<85, 115, 101, 114>>,
            <<>>, <<111, 116, 104, 101, 114>>}

RECURSIVE SeqsUpTo(_, _)
SeqsUpTo(S, n) ==
    IF n = 0 THEN {<<>>}
    ELSE LET shorter == SeqsUpTo(S, n - 1)
         IN shorter \cup {Append(s, x) : s \in {t \in shorter : Len(t) = n - 1}, x \in S}

\* Optional[List[str]] arguments: None or a list of up to MaxDates dates
DateLists == SeqsUpTo({D_2024_01_01}, MaxDates)

\* errors the HTTP client raises (non-success status, network failure)
HttpErrors == {"HTTPError 500", "ConnectionError"}

-----------------------------------------------------------------------------
(* The HTTP client collaborator: what it does with one request *)

HttpRaise(e) == [raised |-> TRUE, error |-> e, body |-> None]
HttpReturn(b) == [raised |-> FALSE, error |-> "", body |-> b]

\* JSON resources the server sends
ServerUserResource(id, date) ==
    [id |-> id, type |-> T_UserAnnotation,
     attributes |-> [date |-> date, content |-> "release",
                     visibility |-> "private", website_id |-> "app-1"]]
ServerSystemResource(id, date) ==
    [id |-> id, type |-> T_SystemAnnotation,
     attributes |-> [date |-> date, content |-> "outage"]]
\* a resource without its attributes
ServerBrokenResource(id) == [id |-> id, type |-> T_UserAnnotation]

\* server-side pagination totals, unrelated to the size of the page
MetaTotals == {0, 40}

\* a page of the user collection: the i-th item is u-i, dated dates[i]
UserPage(dates) ==
    [i \in 1..Len(dates) |->
        ServerUserResource(IF i = 1 THEN "u-1" ELSE IF i = 2 THEN "u-2" ELSE "u-3",
                           dates[i])]
SystemPage(dates) ==
    [i \in 1..Len(dates) |->
        ServerSystemResource(IF i = 1 THEN "s-1" ELSE IF i = 2 THEN "s-2" ELSE "s-3",
                             dates[i])]

PageDates == SeqsUpTo(Dates, MaxItems)

-----------------------------------------------------------------------------
(* Shared data records: api/methods/analytics/models.py *)

Constructed(v) == [raised |-> FALSE, error |-> "", value |-> v]
ValidationError == [raised |-> TRUE, error |-> "ValidationError", value |-> None]

\* an Optional field of a model: the value given, or the default None
OptField(d, k) == IF k \in DOMAIN d THEN Some(d[k]) ELSE None

ValidUserAnnotationAttributes(a) == {"date", "content"} \subseteq DOMAIN a
UserAnnotationAttributes(a) ==
    [cls |-> "UserAnnotationAttributes",
     date |-> a.date, content |-> a.content,
     visibility |-> OptField(a, "visibility"),
     website_id |-> OptField(a, "website_id"),
     author |-> OptField(a, "author"),
     is_author |-> OptField(a, "is_author")]

ValidSystemAnnotationAttributes(a) == {"date", "content"} \subseteq DOMAIN a
SystemAnnotationAttributes(a) ==
    [cls |-> "SystemAnnotationAttributes", date |-> a.date, content |-> a.content]

\* type: Literal["UserAnnotation"]
ValidUserAnnotationResource(r) ==
    /\ {"id", "type", "attributes"} \subseteq DOMAIN r
    /\ r.type = T_UserAnnotation
    /\ ValidUserAnnotationAttributes(r.attributes)
UserAnnotationResource(r) ==
    [cls |-> "UserAnnotationResource", id |-> r.id, type |-> r.type,
     attributes |-> UserAnnotationAttributes(r.attributes)]

\* type: Literal["SystemAnnotation"]
ValidSystemAnnotationResource(r) ==
    /\ {"id", "type", "attributes"} \subseteq DOMAIN r
    /\ r.type = T_SystemAnnotation
    /\ ValidSystemAnnotationAttributes(r.attributes)
SystemAnnotationResource(r) ==
    [cls |-> "SystemAnnotationResource", id |-> r.id, type |-> r.type,
     attributes |-> SystemAnnotationAttributes(r.attributes)]

\* UserAnnotationSingleResponse(**kwargs): data is required
UserAnnotationSingleResponse(kwargs) ==
    IF "data" \in DOMAIN kwargs /\ ValidUserAnnotationResource(kwargs.data)
    THEN Constructed([cls |-> "UserAnnotationSingleResponse",
                      data |-> UserAnnotationResource(kwargs.data)])
    ELSE ValidationError

\* UserAnnotationListResponse(**kwargs): data and meta are required
UserAnnotationListResponse(kwargs) ==
    IF /\ {"data", "meta"} \subseteq DOMAIN kwargs
       /\ \A i \in 1..Len(kwargs.data) : ValidUserAnnotationResource(kwargs.data[i])
    THEN Constructed([cls |-> "UserAnnotationListResponse",
                      data |-> [i \in 1..Len(kwargs.data) |->
                                   UserAnnotationResource(kwargs.data[i])],
                      meta |-> kwargs.meta])
    ELSE ValidationError

\* SystemAnnotationListResponse(**kwargs): data and meta are required
SystemAnnotationListResponse(kwargs) ==
    IF /\ {"data", "meta"} \subseteq DOMAIN kwargs
       /\ \A i \in 1..Len(kwargs.data) : ValidSystemAnnotationResource(kwargs.data[i])
    THEN Constructed([cls |-> "SystemAnnotationListResponse",
                      data |-> [i \in 1..Len(kwargs.data) |->
                                   SystemAnnotationResource(kwargs.data[i])],
                      meta |-> kwargs.meta])
    ELSE ValidationError

-----------------------------------------------------------------------------
(* Resource Client: api/methods/analytics/api.py *)

\* one request handed to the HTTP client, and what the client did with it
Exchange(method, path, params, data, http) ==
    [method |-> method, path |-> path, params |-> params, data |-> data,
     raised |-> http.raised, error |-> http.error, returned |-> http.body]

\* what a Resource Client method did: the requests it sent, and the value it
\* returned or the error it raised
Raised(reqs, e) == [requests |-> reqs, raised |-> TRUE, error |-> e, value |-> None]
Returned(reqs, v) == [requests |-> reqs, raised |-> FALSE, error |-> "", value |-> v]
FromModel(reqs, m) ==
    IF m.raised THEN Raised(reqs, m.error) ELSE Returned(reqs, m.value)

\* params[k] = v when v is not None
SetIfNotNone(k, v) == IF v # None THEN (k :> v.some) ELSE EmptyDict

CreateAttributes_DropDefault(app_id, content, date, visibility) ==
    [website_id |-> app_id, content |-> content, date |-> date]
        @@ (IF visibility # None /\ visibility # Some("private")
            THEN [visibility |-> visibility.some] ELSE EmptyDict)

CreateAttributes(app_id, content, date, visibility) ==
    [website_id |-> app_id, content |-> content, date |-> date]
        @@ SetIfNotNone("visibility", visibility)

create_user_annotation(app_id, content, date, visibility, http) ==
    LET attributes == CreateAttributes(app_id, content, date, visibility)
        data == [data |-> [type |-> T_UserAnnotation, attributes |-> attributes]]
        sent == <<Exchange("POST", <<USER_ANNOTATIONS_BASE>>, None, data, http)>>
    IN IF http.raised THEN Raised(sent, http.error)
       ELSE FromModel(sent, UserAnnotationSingleResponse(OrEmptyDict(http.body)))

\* a client that sends a failed request a second time
list_user_annotations_Retry(app_id, date_from, date_to, limit, offset, http) ==
    LET params == [website_id |-> app_id]
                    @@ SetIfNotNone("limit", limit)
                    @@ SetIfNotNone("offset", offset)
                    @@ SetIfNotNone("date_from", date_from)
                    @@ SetIfNotNone("date_to", date_to)
        once == Exchange("GET", <<USER_ANNOTATIONS_BASE>>, params, None, http)
    IN IF http.raised THEN Raised(<<once, once>>, http.error)
       ELSE FromModel(<<once>>, UserAnnotationListResponse(OrEmptyDict(http.body)))

list_user_annotations(app_id, date_from, date_to, limit, offset, http) ==
    LET params == [website_id |-> app_id]
                    @@ SetIfNotNone("limit", limit)
                    @@ SetIfNotNone("offset", offset)
                    @@ SetIfNotNone("date_from", date_from)
                    @@ SetIfNotNone("date_to", date_to)
        sent == <<Exchange("GET", <<USER_ANNOTATIONS_BASE>>, params, None, http)>>
    IN IF http.raised THEN Raised(sent, http.error)
       ELSE FromModel(sent, UserAnnotationListResponse(OrEmptyDict(http.body)))

list_system_annotations(date_from, date_to, limit, offset, http) ==
    LET params == SetIfNotNone("limit", limit)
                    @@ SetIfNotNone("offset", offset)
                    @@ SetIfNotNone("date_from", date_from)
                    @@ SetIfNotNone("date_to", date_to)
        sent == <<Exchange("GET", <<SYSTEM_ANNOTATIONS_BASE>>, params, None, http)>>
    IN IF http.raised THEN Raised(sent, http.error)
       ELSE FromModel(sent, SystemAnnotationListResponse(OrEmptyDict(http.body)))

get_user_annotation(annotation_id, app_id, http) ==
    LET params == [website_id |-> app_id]
        sent == <<Exchange("GET", <<USER_ANNOTATIONS_BASE, annotation_id>>,
                           params, None, http)>>
    IN IF http.raised THEN Raised(sent, http.error)
       ELSE FromModel(sent, UserAnnotationSingleResponse(OrEmptyDict(http.body)))

\* the response is not read: the method returns None whatever the body is
delete_user_annotation(annotation_id, app_id, http) ==
    LET params == [website_id |-> app_id]
        sent == <<Exchange("DELETE", <<USER_ANNOTATIONS_BASE, annotation_id>>,
                           params, None, http)>>
    IN IF http.raised THEN Raised(sent, http.error)
       ELSE Returned(sent, None)

UpdateAttributes(app_id, content, date, visibility) ==
    [website_id |-> app_id, content |-> content, date |-> date]
        @@ SetIfNotNone("visibility", visibility)

update_user_annotation(annotation_id, app_id, content, date, visibility, http) ==
    LET attributes == UpdateAttributes(app_id, content, date, visibility)
        data == [data |-> [type |-> T_UserAnnotation, id |-> annotation_id,
                           attributes |-> attributes]]
        sent == <<Exchange("PATCH", <<USER_ANNOTATIONS_BASE, annotation_id>>,
                           None, data, http)>>
    IN IF http.raised THEN Raised(sent, http.error)
       ELSE FromModel(sent, UserAnnotationSingleResponse(OrEmptyDict(http.body)))

-----------------------------------------------------------------------------
(* What the HTTP client may do with a request *)

HttpFailures == {HttpRaise(e) : e \in HttpErrors}

\* a request for one resource (POST, GET by id, PATCH, DELETE)
SingleOutcomes ==
    HttpFailures
    \cup {HttpReturn(None), HttpReturn(EmptyDict)}
    \cup {HttpReturn([data |-> ServerUserResource(id, d)]) : id \in Ids, d \in Dates}
    \cup {HttpReturn([data |-> ServerSystemResource(id, d)]) : id \in Ids, d \in Dates}
    \cup {HttpReturn([data |-> ServerBrokenResource(id)]) : id \in Ids}

\* a request for the user collection
UserListOutcomes ==
    HttpFailures
    \cup {HttpReturn(None), HttpReturn(EmptyDict)}
    \cup {HttpReturn([data |-> UserPage(ds), meta |-> [total |-> t]]) :
            ds \in PageDates, t \in MetaTotals}
    \cup {HttpReturn([data |-> <<ServerBrokenResource("u-1")>>, meta |-> [total |-> 1]])}

\* a request for the system collection
SystemListOutcomes ==
    HttpFailures
    \cup {HttpReturn(None), HttpReturn(EmptyDict)}
    \cup {HttpReturn([data |-> SystemPage(ds), meta |-> [total |-> t]]) :
            ds \in PageDates, t \in MetaTotals}
    \cup {HttpReturn([data |-> <<ServerBrokenResource("s-1")>>, meta |-> [total |-> 1]])}

-----------------------------------------------------------------------------
(* Tool Adapter: tools/analytics/models.py and tools/analytics/annotations.py *)

\* AnnotationItem(**api_resp.model_dump()): the validated resource, wrapped again
AnnotationItem(api_resp) == [cls |-> "AnnotationItem", data |-> api_resp.data]

AnnotationsList(data, meta) == [cls |-> "AnnotationsList", data |-> data, meta |-> meta]

\* No tool wraps a Resource Client call in try/except: an error the call raises
\* ends the tool with that error.

analytics_annotations_create(app_id, content, date, visibility, http) ==
    LET called == create_user_annotation(app_id, content, date, Some(visibility), http)
    IN IF called.raised THEN called
       ELSE Returned(called.requests, AnnotationItem(called.value))

DateLengthsMismatch_Longer(date_from, date_to) ==
    date_from # None /\ date_to # None /\ Len(date_from.some) > Len(date_to.some)

\* line 72: both supplied and of different lengths
DateLengthsMismatch(date_from, date_to) ==
    date_from # None /\ date_to # None /\ Len(date_from.some) # Len(date_to.some)

NormalizeSource_NoLower(source) == IF source # <<>> THEN source ELSE S_all

\* (source or "all").lower()
NormalizeSource(source) == Lower(IF source # <<>> THEN source ELSE S_all)

\* user_resp = None, system_resp = None: the collection was not fetched
NotFetched == Returned(<<>>, None)

\* list.sort(key=date, reverse=True) is stable: an item goes behind every item
\* whose date is not smaller than its own
RECURSIVE InsertDesc(_, _)
InsertDesc(sorted, x) ==
    IF sorted = <<>> THEN <<x>>
    ELSE IF StrLess(Head(sorted).attributes.date, x.attributes.date)
         THEN <<x>> \o sorted
         ELSE <<Head(sorted)>> \o InsertDesc(Tail(sorted), x)

RECURSIVE InsertAsc(_, _)
InsertAsc(sorted, x) ==
    IF sorted = <<>> THEN <<x>>
    ELSE IF StrLess(x.attributes.date, Head(sorted).attributes.date)
         THEN <<x>> \o sorted
         ELSE <<Head(sorted)>> \o InsertAsc(Tail(sorted), x)

RECURSIVE SortAsc(_)
SortAsc(items) ==
    IF items = <<>> THEN <<>>
    ELSE InsertAsc(SortAsc(SubSeq(items, 1, Len(items) - 1)), items[Len(items)])

Reverse(s) == [i \in 1..Len(s) |-> s[Len(s) + 1 - i]]

\* sorted(...)[::-1]: an ascending stable sort, reversed
SortByDateDesc_ReversedAscending(items) == Reverse(SortAsc(items))

RECURSIVE SortByDateDesc(_)
SortByDateDesc(items) ==
    IF items = <<>> THEN <<>>
    ELSE InsertDesc(SortByDateDesc(SubSeq(items, 1, Len(items) - 1)), items[Len(items)])

\* line 88
Combined(user_resp, system_resp) == user_resp.data \o system_resp.data

Total_FromMeta(user_resp, system_resp) == user_resp.meta.total + system_resp.meta.total

\* lines 91-93
Total(user_resp, system_resp) == 0 + Len(user_resp.data) + Len(system_resp.data)

analytics_annotations_list(app_id, date_from, date_to, source, limit, offset, httpUser, httpSystem) ==
    IF DateLengthsMismatch(date_from, date_to)
    THEN Raised(<<>>, "RuntimeError: date_from and date_to must have the same number of items")
    ELSE
    LET src == NormalizeSource(source)
        user_call ==
            IF src \in {S_all, S_user}
            THEN list_user_annotations(app_id, date_from, date_to,
                                       Some(limit), Some(offset), httpUser)
            ELSE NotFetched
    IN IF user_call.raised THEN user_call
       ELSE
       LET system_call ==
               IF src \in {S_all, S_system}
               THEN list_system_annotations(date_from, date_to,
                                            Some(limit), Some(offset), httpSystem)
               ELSE NotFetched
           sent == user_call.requests \o system_call.requests
           user_resp == user_call.value
           system_resp == system_call.value
       IN IF system_call.raised THEN Raised(sent, system_call.error)
          \* None has no attribute data
          ELSE IF user_resp = None \/ system_resp = None
          THEN Raised(sent, "AttributeError: 'NoneType' object has no attribute 'data'")
          ELSE Returned(sent,
                        AnnotationsList(SortByDateDesc(Combined(user_resp, system_resp)),
                                        [total |-> Total(user_resp, system_resp)]))

analytics_annotations_get(annotation_id, app_id, http) ==
    LET called == get_user_annotation(annotation_id, app_id, http)
    IN IF called.raised THEN called
       ELSE Returned(called.requests, AnnotationItem(called.value))

analytics_annotations_delete(annotation_id, app_id, httpGet, httpDelete) ==
    LET fetched == get_user_annotation(annotation_id, app_id, httpGet)
    IN IF fetched.raised THEN fetched
       ELSE
       LET details == fetched.value
           \* (details or {})
           obj == OrEmptyDict(details)
       IN \* .get("data", {}) on a UserAnnotationSingleResponse
          IF ~HasGet(obj)
          THEN Raised(fetched.requests,
                      "AttributeError: 'UserAnnotationSingleResponse' object has no attribute 'get'")
          ELSE
          LET data == DictGet(obj, "data", EmptyDict)
              \* None and "" are both falsy: <<>> stands for either
              item_type == DictGet(data, "type", <<>>)
          IN IF item_type # <<>> /\ Lower(item_type) = T_systemannotation
             THEN Raised(fetched.requests, "RuntimeError: System annotations cannot be deleted.")
             ELSE
             LET deleted == delete_user_annotation(annotation_id, app_id, httpDelete)
                 sent == fetched.requests \o deleted.requests
             IN IF deleted.raised THEN Raised(sent, deleted.error)
                ELSE Returned(sent, None)

analytics_annotations_update(annotation_id, app_id, content, date, visibility, http) ==
    LET called == update_user_annotation(annotation_id, app_id, content, date,
                                         Some(visibility), http)
    IN IF called.raised THEN called
       ELSE Returned(called.requests, AnnotationItem(called.value))

-----------------------------------------------------------------------------
(* The state machine: one action per callable operation *)

NoCall == [op |-> "none"]
NoResult == [status |-> "none", error |-> "", value |-> None]

\* how an invocation ended
Outcome(done) ==
    [status |-> IF done.raised THEN "error" ELSE "ok",
     error |-> done.error, value |-> done.value]

OptionalDateLists == {None} \cup {Some(l) : l \in DateLists}
OptionalVisibilities == {None} \cup {Some(v) : v \in Visibilities}
OptionalLimits == {None} \cup {Some(n) : n \in Limits}
OptionalOffsets == {None} \cup {Some(n) : n \in Offsets}

Init ==
    /\ call = NoCall
    /\ requests = <<>>
    /\ result = NoResult

\* calls are synchronous and one at a time: an operation starts only when no
\* invocation is in progress
Idle == call = NoCall

(* Resource Client methods, called directly *)

Api_create_user_annotation ==
    /\ Idle
    /\ \E app_id \in Apps, content \in Contents, date \in Dates,
       visibility \in OptionalVisibilities, http \in SingleOutcomes :
        LET done == create_user_annotation(app_id, content, date, visibility, http)
        IN /\ call' = [op |-> "create_user_annotation", app_id |-> app_id,
                       content |-> content, date |-> date, visibility |-> visibility]
           /\ requests' = done.requests
           /\ result' = Outcome(done)

Api_list_user_annotations ==
    /\ Idle
    /\ \E app_id \in Apps, date_from \in OptionalDateLists, date_to \in OptionalDateLists,
       limit \in OptionalLimits, offset \in OptionalOffsets, http \in UserListOutcomes :
        LET done == list_user_annotations(app_id, date_from, date_to, limit, offset, http)
        IN /\ call' = [op |-> "list_user_annotations", app_id |-> app_id,
                       date_from |-> date_from, date_to |-> date_to,
                       limit |-> limit, offset |-> offset]
           /\ requests' = done.requests
           /\ result' = Outcome(done)

Api_list_system_annotations ==
    /\ Idle
    /\ \E date_from \in OptionalDateLists, date_to \in OptionalDateLists,
       limit \in OptionalLimits, offset \in OptionalOffsets, http \in SystemListOutcomes :
        LET done == list_system_annotations(date_from, date_to, limit, offset, http)
        IN /\ call' = [op |-> "list_system_annotations",
                       date_from |-> date_from, date_to |-> date_to,
                       limit |-> limit, offset |-> offset]
           /\ requests' = done.requests
           /\ result' = Outcome(done)

Api_get_user_annotation ==
    /\ Idle
    /\ \E annotation_id \in Ids, app_id \in Apps, http \in SingleOutcomes :
        LET done == get_user_annotation(annotation_id, app_id, http)
        IN /\ call' = [op |-> "get_user_annotation",
                       annotation_id |-> annotation_id, app_id |-> app_id]
           /\ requests' = done.requests
           /\ result' = Outcome(done)

Api_delete_user_annotation ==
    /\ Idle
    /\ \E annotation_id \in Ids, app_id \in Apps, http \in SingleOutcomes :
        LET done == delete_user_annotation(annotation_id, app_id, http)
        IN /\ call' = [op |-> "delete_user_annotation",
                       annotation_id |-> annotation_id, app_id |-> app_id]
           /\ requests' = done.requests
           /\ result' = Outcome(done)

Api_update_user_annotation ==
    /\ Idle
    /\ \E annotation_id \in Ids, app_id \in Apps, content \in Contents, date \in Dates,
       visibility \in OptionalVisibilities, http \in SingleOutcomes :
        LET done == update_user_annotation(annotation_id, app_id, content, date,
                                           visibility, http)
        IN /\ call' = [op |-> "update_user_annotation",
                       annotation_id |-> annotation_id, app_id |-> app_id,
                       content |-> content, date |-> date, visibility |-> visibility]
           /\ requests' = done.requests
           /\ result' = Outcome(done)

(* Tools *)

Tool_analytics_annotations_create ==
    /\ Idle
    /\ \E app_id \in Apps, content \in Contents, date \in Dates,
       visibility \in Visibilities, http \in SingleOutcomes :
        LET done == analytics_annotations_create(app_id, content, date, visibility, http)
        IN /\ call' = [op |-> "analytics_annotations_create", app_id |-> app_id,
                       content |-> content, date |-> date, visibility |-> visibility]
           /\ requests' = done.requests
           /\ result' = Outcome(done)

Tool_analytics_annotations_list ==
    /\ Idle
    /\ \E app_id \in Apps, date_from \in OptionalDateLists, date_to \in OptionalDateLists,
       source \in Sources, limit \in Limits, offset \in Offsets,
       httpUser \in UserListOutcomes, httpSystem \in SystemListOutcomes :
        LET done == analytics_annotations_list(app_id, date_from, date_to, source,
                                               limit, offset, httpUser, httpSystem)
        IN /\ call' = [op |-> "analytics_annotations_list", app_id |-> app_id,
                       date_from |-> date_from, date_to |-> date_to,
                       source |-> source, limit |-> limit, offset |-> offset]
           /\ requests' = done.requests
           /\ result' = Outcome(done)

Tool_analytics_annotations_get ==
    /\ Idle
    /\ \E annotation_id \in Ids, app_id \in Apps, http \in SingleOutcomes :
        LET done == analytics_annotations_get(annotation_id, app_id, http)
        IN /\ call' = [op |-> "analytics_annotations_get",
                       annotation_id |-> annotation_id, app_id |-> app_id]
           /\ requests' = done.requests
           /\ result' = Outcome(done)

Tool_analytics_annotations_delete ==
    /\ Idle
    /\ \E annotation_id \in Ids, app_id \in Apps,
       httpGet \in SingleOutcomes, httpDelete \in SingleOutcomes :
        LET done == analytics_annotations_delete(annotation_id, app_id, httpGet, httpDelete)
        IN /\ call' = [op |-> "analytics_annotations_delete",
                       annotation_id |-> annotation_id, app_id |-> app_id]
           /\ requests' = done.requests
           /\ result' = Outcome(done)

Tool_analytics_annotations_update ==
    /\ Idle
    /\ \E annotation_id \in Ids, app_id \in Apps, content \in Contents, date \in Dates,
       visibility \in Visibilities, http \in SingleOutcomes :
        LET done == analytics_annotations_update(annotation_id, app_id, content, date,
                                                 visibility, http)
        IN /\ call' = [op |-> "analytics_annotations_update",
                       annotation_id |-> annotation_id, app_id |-> app_id,
                       content |-> content, date |-> date, visibility |-> visibility]
           /\ requests' = done.requests
           /\ result' = Outcome(done)

\* the outcome goes back to the caller; nothing of the invocation is kept
Return ==
    /\ ~Idle
    /\ call' = NoCall
    /\ requests' = <<>>
    /\ result' = NoResult

Next ==
    \/ Api_create_user_annotation
    \/ Api_list_user_annotations
    \/ Api_list_system_annotations
    \/ Api_get_user_annotation
    \/ Api_delete_user_annotation
    \/ Api_update_user_annotation
    \/ Tool_analytics_annotations_create
    \/ Tool_analytics_annotations_list
    \/ Tool_analytics_annotations_get
    \/ Tool_analytics_annotations_delete
    \/ Tool_analytics_annotations_update
    \/ Return

Spec == Init /\ [][Next]_vars

-----------------------------------------------------------------------------
(* Reading the record of an invocation *)

ListToolCalled == call.op = "analytics_annotations_list"
DeleteToolCalled == call.op = "analytics_annotations_delete"

\* the source of a list call as the tool reads it: lower-cased, "" taken as "all"
SourceRead == Lower(IF call.source = <<>> THEN S_all ELSE call.source)

IsUserListRequest(r) == r.method = "GET" /\ r.path = <<USER_ANNOTATIONS_BASE>>
IsSystemListRequest(r) == r.method = "GET" /\ r.path = <<SYSTEM_ANNOTATIONS_BASE>>

UserListRequested == \E i \in 1..Len(requests) : IsUserListRequest(requests[i])
SystemListRequested == \E i \in 1..Len(requests) : IsSystemListRequest(requests[i])

\* the request did not raise and its body is a well-formed page
UserPageFetched(r) ==
    /\ IsUserListRequest(r)
    /\ ~r.raised
    /\ {"data", "meta"} \subseteq DOMAIN r.returned
    /\ \A i \in 1..Len(r.returned.data) :
          /\ {"id", "type", "attributes"} \subseteq DOMAIN r.returned.data[i]
          /\ r.returned.data[i].type = T_UserAnnotation
SystemPageFetched(r) ==
    /\ IsSystemListRequest(r)
    /\ ~r.raised
    /\ {"data", "meta"} \subseteq DOMAIN r.returned
    /\ \A i \in 1..Len(r.returned.data) :
          /\ {"id", "type", "attributes"} \subseteq DOMAIN r.returned.data[i]
          /\ r.returned.data[i].type = T_SystemAnnotation

\* the items of a fetched page, as identifier and date
Fetched(r) == [i \in 1..Len(r.returned.data) |->
                  <<r.returned.data[i].id, r.returned.data[i].attributes.date>>]
\* the items the tool returned, as identifier and date
ReturnedItems == [i \in 1..Len(result.value.data) |->
                     <<result.value.data[i].id, result.value.data[i].attributes.date>>]

Occurrences(s, x) == Cardinality({i \in 1..Len(s) : s[i] = x})
IsPermutation(s, t) ==
    /\ Len(s) = Len(t)
    /\ \A i \in 1..Len(t) : Occurrences(s, t[i]) = Occurrences(t, t[i])

NonIncreasingByDate(s) ==
    \A i, j \in 1..Len(s) : i < j => ~StrLess(s[i][2], s[j][2])

\* the first place of x in s
IndexOf(s, x) == CHOOSE i \in 1..Len(s) : s[i] = x /\ \A j \in 1..(i - 1) : s[j] # x

\* items of equal date keep the order they have in before
TiesKeepOrder(after, before) ==
    \A i, j \in 1..Len(after) :
        (i < j /\ after[i][2] = after[j][2])
            => IndexOf(before, after[i]) < IndexOf(before, after[j])

-----------------------------------------------------------------------------
(* C1 *)

DateListsDiffer ==
    /\ call.date_from # None
    /\ call.date_to # None
    /\ Len(call.date_from.some) # Len(call.date_to.some)

\* C1: a list call whose date_from and date_to are both supplied and differ in
\* length fails with the descriptive error and sends no HTTP request, whatever
\* source, limit and offset are.
C1_MismatchFailsBeforeAnyRequest ==
    (ListToolCalled /\ DateListsDiffer)
        => /\ result.status = "error"
           /\ result.error
                = "RuntimeError: date_from and date_to must have the same number of items"
           /\ requests = <<>>

\* the spec's example: two start dates, one end date
C1_Witness ==
    /\ ListToolCalled
    /\ call.date_from # None /\ call.date_to # None
    /\ Len(call.date_from.some) = 2
    /\ Len(call.date_to.some) = 1
    /\ call.source = S_user
    /\ result.status = "error"
    /\ requests = <<>>

-----------------------------------------------------------------------------
(* C2, C3 *)

\* the GET of the delete guard returned a record of this kind
GuardFetchedKind(kind) ==
    /\ DeleteToolCalled
    /\ requests # <<>>
    /\ requests[1].method = "GET"
    /\ ~requests[1].raised
    /\ "data" \in DOMAIN requests[1].returned
    /\ {"id", "type", "attributes"} \subseteq DOMAIN requests[1].returned.data
    /\ requests[1].returned.data.type = kind

NoDeleteSent == \A i \in 1..Len(requests) : requests[i].method # "DELETE"

\* C2: deleting an identifier whose fetched record is a SystemAnnotation fails
\* with the error that system annotations cannot be deleted, and sends no DELETE.
C2_SystemDeleteRefused ==
    GuardFetchedKind(T_SystemAnnotation)
        => /\ result.status = "error"
           /\ result.error = "RuntimeError: System annotations cannot be deleted."
           /\ NoDeleteSent

\* C3: deleting an identifier whose fetched record is a UserAnnotation sends,
\* after the GET, exactly one DELETE for that identifier scoped by the app id,
\* and completes without error when the DELETE does.
C3_UserDeleteSent ==
    GuardFetchedKind(T_UserAnnotation)
        => /\ Len(requests) = 2
           /\ requests[2].method = "DELETE"
           /\ requests[2].path = <<USER_ANNOTATIONS_BASE, call.annotation_id>>
           /\ requests[2].params = [website_id |-> call.app_id]
           /\ (~requests[2].raised => result.status = "ok")

-----------------------------------------------------------------------------
(* C4 *)

\* the list call passed the validation of its date lists
ListValidated == ListToolCalled /\ ~DateListsDiffer

\* the user fetch of the call was made and did not return a page
UserFetchFailed ==
    /\ requests # <<>>
    /\ IsUserListRequest(requests[1])
    /\ ~UserPageFetched(requests[1])

\* C4 as stated: in a validated list call the user endpoint is
\* requested iff source, in lower case, is "all" or "user", and the system
\* endpoint iff it is "all" or "system".
C4_AsStated ==
    ListValidated
        => /\ UserListRequested <=> Lower(call.source) \in {S_all, S_user}
           /\ SystemListRequested <=> Lower(call.source) \in {S_all, S_system}

\* C4 (amended): in a validated list call, with an empty source read as "all"
\* and the source compared in lower case, the user endpoint is requested iff
\* source is "all" or "user"; the system endpoint is requested iff source is
\* "all" or "system" and the user fetch, when one was made, did not fail.
C4_SourceSelectsEndpoints ==
    ListValidated
        => /\ UserListRequested <=> SourceRead \in {S_all, S_user}
           /\ SystemListRequested
                <=> (SourceRead \in {S_all, S_system} /\ ~UserFetchFailed)

\* source "User": the user endpoint alone is requested
C4_Witness ==
    /\ ListValidated
    /\ call.source = <<85, 115, 101, 114>>
    /\ Len(requests) = 1
    /\ UserPageFetched(requests[1])
    /\ ~SystemListRequested

-----------------------------------------------------------------------------
(* C5 *)

\* the call selected one collection only, and its fetch returned a page
OnlyUserFetched ==
    /\ ListValidated /\ SourceRead = S_user
    /\ requests # <<>> /\ UserPageFetched(requests[1])
OnlySystemFetched ==
    /\ ListValidated /\ SourceRead = S_system
    /\ requests # <<>> /\ SystemPageFetched(requests[1])

\* C5: a list call that selects one collection whose fetch succeeds returns
\* the items of that collection, sorted descending by date, with meta.total
\* their number.
C5_SingleSourceReturnsSelected ==
    (OnlyUserFetched \/ OnlySystemFetched)
        => /\ result.status = "ok"
           /\ IsPermutation(ReturnedItems, Fetched(requests[1]))
           /\ NonIncreasingByDate(ReturnedItems)
           /\ result.value.meta.total = Len(requests[1].returned.data)

-----------------------------------------------------------------------------
(* C6, C10 *)

\* source "all", and both fetches returned a page
BothFetched ==
    /\ ListValidated /\ SourceRead = S_all
    /\ Len(requests) = 2
    /\ UserPageFetched(requests[1])
    /\ SystemPageFetched(requests[2])

\* the concatenation the tool sorts: user items, then system items
PreSort == Fetched(requests[1]) \o Fetched(requests[2])

\* C6: with source "all" and both fetches successful, the data returned is a
\* permutation of the fetched items in non-increasing order of date, and
\* meta.total is the number of fetched items, whatever totals the server sent.
C6_MergedSortedCounted ==
    BothFetched
        => /\ result.status = "ok"
           /\ IsPermutation(ReturnedItems, PreSort)
           /\ NonIncreasingByDate(ReturnedItems)
           /\ result.value.meta.total
                = Len(requests[1].returned.data) + Len(requests[2].returned.data)

\* two user and two system items of mixed dates; the server's totals are not 4
C6_Witness ==
    /\ BothFetched
    /\ Len(requests[1].returned.data) = 2
    /\ Len(requests[2].returned.data) = 2
    /\ requests[1].returned.data[1].attributes.date = D_2024_01_01
    /\ requests[1].returned.data[2].attributes.date = D_2024_01_31
    /\ requests[1].returned.meta.total = 40
    /\ requests[2].returned.meta.total = 0
    /\ result.status = "ok"
    /\ result.value.meta.total = 4

\* C10: in the output of the list tool, items of equal date are in the order
\* of the concatenation before the sort: user items before system items, each
\* collection in the order the server sent it.
C10_SortIsStable ==
    (ListToolCalled /\ result.status = "ok")
        => TiesKeepOrder(ReturnedItems, PreSort)

\* u-1 and s-1 share the later date, u-2 and s-2 the earlier one
C10_Witness ==
    /\ BothFetched
    /\ result.status = "ok"
    /\ Fetched(requests[1]) = << <<"u-1", D_2024_01_31>>, <<"u-2", D_2024_01_01>> >>
    /\ Fetched(requests[2]) = << <<"s-1", D_2024_01_31>>, <<"s-2", D_2024_01_01>> >>
    /\ ReturnedItems = << <<"u-1", D_2024_01_31>>, <<"s-1", D_2024_01_31>>,
                          <<"u-2", D_2024_01_01>>, <<"s-2", D_2024_01_01>> >>

-----------------------------------------------------------------------------
(* C7 *)

CreateCalled == call.op \in {"create_user_annotation", "analytics_annotations_create"}
UpdateCalled == call.op \in {"update_user_annotation", "analytics_annotations_update"}

\* the visibility the Resource Client method was given: the tools always pass
\* the string they were given, a direct caller may pass None
VisibilityGiven ==
    IF call.op \in {"create_user_annotation", "update_user_annotation"}
    THEN call.visibility
    ELSE Some(call.visibility)

\* the attributes of the request body the call sent
AttributesSent == requests[1].data.data.attributes

AttributesAsClaimed ==
    /\ DOMAIN AttributesSent
         = {"website_id", "content", "date"}
             \cup (IF VisibilityGiven = None THEN {} ELSE {"visibility"})
    /\ AttributesSent.website_id = call.app_id
    /\ AttributesSent.content = call.content
    /\ AttributesSent.date = call.date
    /\ VisibilityGiven # None => AttributesSent.visibility = VisibilityGiven.some

\* C7: the body of every create and update request has the attributes
\* website_id, content and date, and visibility iff the argument is not None
\* (the default "private" is sent); an update also carries the identifier in
\* the body and in the path.
C7_PayloadAttributes ==
    /\ CreateCalled
         => /\ Len(requests) = 1
            /\ requests[1].method = "POST"
            /\ requests[1].path = <<USER_ANNOTATIONS_BASE>>
            /\ DOMAIN requests[1].data.data = {"type", "attributes"}
            /\ AttributesAsClaimed
    /\ UpdateCalled
         => /\ Len(requests) = 1
            /\ requests[1].method = "PATCH"
            /\ requests[1].path = <<USER_ANNOTATIONS_BASE, call.annotation_id>>
            /\ DOMAIN requests[1].data.data = {"type", "id", "attributes"}
            /\ requests[1].data.data.id = call.annotation_id
            /\ AttributesAsClaimed

\* a create with the default visibility, which is sent
C7_Witness ==
    /\ call.op = "create_user_annotation"
    /\ call.visibility = Some("private")
    /\ Len(requests) = 1
    /\ AttributesSent.visibility = "private"

-----------------------------------------------------------------------------
(* C8 *)

ResourceClientCalled ==
    call.op \in {"create_user_annotation", "list_user_annotations",
                 "list_system_annotations", "get_user_annotation",
                 "update_user_annotation", "delete_user_annotation"}

\* the HTTP client returned no body, or an empty one
BodyMissingOrEmpty ==
    /\ Len(requests) = 1
    /\ ~requests[1].raised
    /\ requests[1].returned \in {None, EmptyDict}

\* C8: a Resource Client operation whose HTTP response body is missing or
\* empty returns, and raises no error.
C8_EmptyBodyIsNoError ==
    (ResourceClientCalled /\ BodyMissingOrEmpty) => result.status = "ok"

-----------------------------------------------------------------------------
(* C9 *)

\* C9: a request on which the HTTP client raised is the last request of its
\* invocation, and the invocation ends with the error the client raised.
C9_HttpErrorEndsInvocation ==
    \A i \in 1..Len(requests) :
        requests[i].raised
            => /\ i = Len(requests)
               /\ result.status = "error"
               /\ result.error = requests[i].error

\* list with source "all": the user fetch raised, the system fetch was not made
C9_Witness ==
    /\ ListValidated
    /\ SourceRead = S_all
    /\ Len(requests) = 1
    /\ IsUserListRequest(requests[1])
    /\ requests[1].raised
    /\ result.status = "error"
    /\ result.error = "ConnectionError"

====
